---- MODULE Spec2Model ----
(***************************************************************************)
(* Model of the service-provisioning core of sn_node_manager               *)
(* (src/sn_node_manager/src/add_services/config.rs): PortRange parsing and *)
(* validation, and the node / auditor / faucet ServiceInstallCtx builders. *)
(*                                                                         *)
(* Every operation is a pure function of its input.  The state records one *)
(* call: pc is "idle" before the call and "done" after it, call holds the  *)
(* operation and its input, out holds what the operation returned.         *)
(***************************************************************************)
EXTENDS Integers, Sequences, FiniteSets, TLC

VARIABLES pc, call, out, popup, steps

vars == <<pc, call, out, popup, steps>>

(***************************************************************************)
(* Bounds and sample values                                                *)
(***************************************************************************)

\* longest text handed to PortRange::parse
MaxLen == 7

\* u16::MAX, the width of a port and of a count
U16Max == 65535

\* characters of the texts handed to PortRange::parse: digits, the range
\* separator, the sign u16::from_str accepts, and a non-numeric character
Chars == {"0", "1", "9", "-", "+", "x"}

\* ports and counts the validate calls are drawn from, both ends of u16 included
Ports == {0, 1, 8081, 8083, 65534, 65535}
Counts == {0, 1, 2, 3, 65535}

\* longest bootstrap peer list handed to a builder
MaxPeers == 2

\* largest instance count of a fleet request
MaxCount == 3

\* most events (update actions and keys) one wallet popup is sent
MaxSteps == 6

\* INPUT_SIZE_USERNAME
InputSize == 42

\* the {40} of the address pattern
HexDigits == 40

(***************************************************************************)
(* Helpers                                                                 *)
(***************************************************************************)

NoCall == [op |-> "none"]
NoOut == [tag |-> "none"]

\* all sequences over S of length at most n
SeqsUpTo(S, n) == UNION {[1..k -> S] : k \in 0..n}

(***************************************************************************)
(* u16::from_str (config.rs:29, 36, 37)                                    *)
(***************************************************************************)

IsDigit(c) == c \in {"0", "1", "2", "3", "4", "5", "6", "7", "8", "9"}

DigitVal(c) ==
    CASE c = "0" -> 0 [] c = "1" -> 1 [] c = "2" -> 2 [] c = "3" -> 3
      [] c = "4" -> 4 [] c = "5" -> 5 [] c = "6" -> 6 [] c = "7" -> 7
      [] c = "8" -> 8 [] c = "9" -> 9

\* the digit loop of from_str_radix: result = result.checked_mul(10)?.checked_add(d)?
\* acc is -1 once a character is no digit or the value has left the u16 range
RECURSIVE ParseDigits(_, _)
ParseDigits(s, acc) ==
    IF s = <<>> THEN acc
    ELSE IF ~IsDigit(Head(s)) THEN -1
    ELSE IF acc * 10 > U16Max THEN -1
    ELSE IF acc * 10 + DigitVal(Head(s)) > U16Max THEN -1
    ELSE ParseDigits(Tail(s), acc * 10 + DigitVal(Head(s)))

\* u16::from_str: the empty text and a lone sign are errors, one leading '+'
\* is dropped, a leading '-' is an invalid digit of an unsigned type
ParseU16(s) ==
    IF s = <<>> THEN [ok |-> FALSE, val |-> 0]
    ELSE IF Len(s) = 1 /\ Head(s) \in {"+", "-"} THEN [ok |-> FALSE, val |-> 0]
    ELSE LET digits == IF Head(s) = "+" THEN Tail(s) ELSE s
             v == ParseDigits(digits, 0)
         IN  IF v < 0 THEN [ok |-> FALSE, val |-> 0] ELSE [ok |-> TRUE, val |-> v]

\* s.split('-'): the pieces between separators, empty pieces kept
RECURSIVE SplitDash(_, _)
SplitDash(s, cur) ==
    IF s = <<>> THEN <<cur>>
    ELSE IF Head(s) = "-" THEN <<cur>> \o SplitDash(Tail(s), <<>>)
    ELSE SplitDash(Tail(s), Append(cur, Head(s)))

(***************************************************************************)
(* PortRange (config.rs:21-68)                                             *)
(***************************************************************************)

Single(p) == [tag |-> "Single", start |-> p, end |-> p]
Range(s, e) == [tag |-> "Range", start |-> s, end |-> e]
ParseErr(why) == [tag |-> "Err", why |-> why]

\* a parse that lets start = end through
BadOrder_OffByOne(start, end) == start > end

\* if start >= end { return Err(..) }
BadOrder(start, end) == start >= end

\* PortRange::parse
Parse(s) ==
    LET whole == ParseU16(s)
    IN  IF whole.ok THEN Single(whole.val)
        ELSE LET parts == SplitDash(s, <<>>)
             IN  IF Len(parts) # 2 THEN ParseErr("format")
                 ELSE LET start == ParseU16(parts[1])
                          end == ParseU16(parts[2])
                      IN  IF ~start.ok THEN ParseErr("start")
                          ELSE IF ~end.ok THEN ParseErr("end")
                          ELSE IF BadOrder(start.val, end.val) THEN ParseErr("order")
                          ELSE Range(start.val, end.val)

\* u16::to_string: the decimal digits, no sign, no leading zero
RECURSIVE ToStr(_)
ToStr(n) ==
    LET d == <<"0", "1", "2", "3", "4", "5", "6", "7", "8", "9">>
    IN  IF n < 10 THEN d[n + 1] ELSE ToStr(n \div 10) \o d[(n % 10) + 1]

ValidateOk == [tag |-> "Ok"]
ValidatePanic == [tag |-> "Panic"]

\* eyre!("The count ({count}) does not match the number of ports ({port_count})")
ValidateErr(count, port_count) ==
    [tag |-> "Err",
     msg |-> "The count (" \o ToStr(count)
             \o ") does not match the number of ports (" \o ToStr(port_count) \o ")"]

\* a - b and a + b on u16: with overflow checks compiled in (debug profile) a
\* result outside 0..65535 panics, reported as -1; without them (release
\* profile) it wraps modulo 2^16
U16Sub(a, b, checks) ==
    IF a - b >= 0 THEN a - b
    ELSE IF checks THEN -1 ELSE (a - b) + (U16Max + 1)

U16Add(a, b, checks) ==
    IF a + b <= U16Max THEN a + b
    ELSE IF checks THEN -1 ELSE (a + b) % (U16Max + 1)

\* let port_count = end - start + 1;
PortCount(start, end, checks) ==
    LET diff == U16Sub(end, start, checks)
    IN  IF diff < 0 THEN -1 ELSE U16Add(diff, 1, checks)

\* a validate that accepts a Single range for every count
Validate_SingleAnyCount(r, count, checks) ==
    IF r.tag = "Single" THEN ValidateOk
    ELSE LET port_count == PortCount(r.start, r.end, checks)
         IN  IF port_count < 0 THEN ValidatePanic
             ELSE IF count # port_count THEN ValidateErr(count, port_count)
             ELSE ValidateOk

\* a validate that accepts a Range holding fewer ports than the count
Validate_RangeAtMost(r, count, checks) ==
    IF r.tag = "Single"
    THEN IF count # 1 THEN ValidateErr(count, 1) ELSE ValidateOk
    ELSE LET port_count == PortCount(r.start, r.end, checks)
         IN  IF port_count < 0 THEN ValidatePanic
             ELSE IF count < port_count THEN ValidateErr(count, port_count)
             ELSE ValidateOk

\* PortRange::validate(&self, count)
Validate(r, count, checks) ==
    IF r.tag = "Single"
    THEN IF count # 1 THEN ValidateErr(count, 1) ELSE ValidateOk
    ELSE LET port_count == PortCount(r.start, r.end, checks)
         IN  IF port_count < 0 THEN ValidatePanic
             ELSE IF count # port_count THEN ValidateErr(count, port_count)
             ELSE ValidateOk

\* the PortRange values a caller can construct over Ports
PortRanges == {Single(p) : p \in Ports} \cup {Range(s, e) : s \in Ports, e \in Ports}

(***************************************************************************)
(* Values the builders consume                                             *)
(***************************************************************************)

None == [some |-> FALSE]
Some(v) == [some |-> TRUE, v |-> v]

\* Ipv4Addr::to_string: the four octets in decimal, joined by '.'
IpToString(ip) ==
    ToStr(ip[1]) \o "." \o ToStr(ip[2]) \o "." \o ToStr(ip[3]) \o "." \o ToStr(ip[4])

\* SocketAddr::to_string of a V4 address: ip ':' port
SocketAddrToString(a) == IpToString(a.ip) \o ":" \o ToStr(a.port)

\* PathBuf::to_string_lossy().to_string(): a path is kept as its pieces, the
\* piece BadBytes standing for bytes that are no UTF-8; the lossy conversion
\* writes U+FFFD for them and leaves the rest as it is
BadBytes == "\\xFF"
RECURSIVE PathToStringLossy(_)
PathToStringLossy(p) ==
    IF p = <<>> THEN ""
    ELSE (IF Head(p) = BadBytes THEN "\\u{FFFD}" ELSE Head(p)) \o PathToStringLossy(Tail(p))

\* LogFormat::as_str
LogFormatAsStr(f) == IF f = "Json" THEN "json" ELSE "default"

\* Url::to_string: the serialization of a parsed URL, whose path is never empty
UrlToString(u) == u.scheme \o "://" \o u.host \o ":" \o ToStr(u.port) \o u.path

\* Multiaddr, RewardsAddress / Address: opaque validated values, kept here by
\* their canonical text, which is what to_string() returns
MultiaddrToString(m) == m.text
AddressToString(a) == a.text

\* EvmNetwork::to_string: the network's token
EvmNetworkToString(n) == IF n.tag = "Custom" THEN "evm-custom" ELSE "evm-arbitrum-one"

\* self.name.parse::<ServiceLabel>(): the label of a name the parser accepts
\* ServiceLabel's parser is outside these sources: it is taken to refuse the
\* names of RefusedNames (a base name, the instance names made from it, and
\* one instance name whose siblings parse) and to accept every other name
BadName == "bad name"
RefusedNames == {BadName, "svc1"} \cup {BadName \o ToStr(i) : i \in 0..MaxCount}
ParseLabel(name) ==
    IF name \in RefusedNames THEN [ok |-> FALSE] ELSE [ok |-> TRUE, label |-> name]

\* peers.iter().map(|peer| peer.to_string()).collect::<Vec<_>>().join(",")
RECURSIVE JoinPeers(_)
JoinPeers(peers) ==
    IF Len(peers) = 1 THEN MultiaddrToString(peers[1])
    ELSE MultiaddrToString(peers[1]) \o "," \o JoinPeers(Tail(peers))

\* a builder that pushes one --peer flag for every peer
RECURSIVE PeerArgs_FlagPerPeer(_)
PeerArgs_FlagPerPeer(peers) ==
    IF peers = <<>> THEN <<>>
    ELSE <<"--peer", MultiaddrToString(Head(peers))>> \o PeerArgs_FlagPerPeer(Tail(peers))

\* if !self.bootstrap_peers.is_empty() { push "--peer"; push the joined peers }
PeerArgs(peers) ==
    IF peers # <<>> THEN <<"--peer", JoinPeers(peers)>> ELSE <<>>

BuildErr == [tag |-> "Err"]

(***************************************************************************)
(* InstallNodeServiceCtxBuilder::build (config.rs:96-188)                  *)
(***************************************************************************)

\* if flag { args.push(name) }
FlagArg(flag, name) == IF flag THEN <<name>> ELSE <<>>

\* a preamble with the log directory pushed before the data directory
NodePreamble_LogFirst(b) ==
    <<"--rpc", SocketAddrToString(b.rpc_socket_addr),
      "--log-output-dest", PathToStringLossy(b.log_dir_path),
      "--root-dir", PathToStringLossy(b.data_dir_path)>>

\* let mut args = vec!["--rpc", .., "--root-dir", .., "--log-output-dest", ..]
NodePreamble(b) ==
    <<"--rpc", SocketAddrToString(b.rpc_socket_addr),
      "--root-dir", PathToStringLossy(b.data_dir_path),
      "--log-output-dest", PathToStringLossy(b.log_dir_path)>>

\* the optional pushes with the --upnp block moved before the --log-format block
NodeOptionalArgs_UpnpEarly(b) ==
    FlagArg(b.genesis, "--first")
    \o FlagArg(b.home_network, "--home-network")
    \o FlagArg(b.local, "--local")
    \o FlagArg(b.upnp, "--upnp")
    \o (IF b.log_format.some
        THEN <<"--log-format", LogFormatAsStr(b.log_format.v)>> ELSE <<>>)
    \o (IF b.node_ip.some THEN <<"--ip", IpToString(b.node_ip.v)>> ELSE <<>>)
    \o (IF b.node_port.some THEN <<"--port", ToStr(b.node_port.v)>> ELSE <<>>)
    \o (IF b.metrics_port.some
        THEN <<"--metrics-server-port", ToStr(b.metrics_port.v)>> ELSE <<>>)
    \o (IF b.owner.some THEN <<"--owner", b.owner.v>> ELSE <<>>)
    \o (IF b.max_archived_log_files.some
        THEN <<"--max-archived-log-files", ToStr(b.max_archived_log_files.v)>> ELSE <<>>)
    \o (IF b.max_log_files.some
        THEN <<"--max-log-files", ToStr(b.max_log_files.v)>> ELSE <<>>)

\* the pushes guarded by genesis .. max_log_files, in the order of the code
NodeOptionalArgs(b) ==
    FlagArg(b.genesis, "--first")
    \o FlagArg(b.home_network, "--home-network")
    \o FlagArg(b.local, "--local")
    \o (IF b.log_format.some
        THEN <<"--log-format", LogFormatAsStr(b.log_format.v)>> ELSE <<>>)
    \o FlagArg(b.upnp, "--upnp")
    \o (IF b.node_ip.some THEN <<"--ip", IpToString(b.node_ip.v)>> ELSE <<>>)
    \o (IF b.node_port.some THEN <<"--port", ToStr(b.node_port.v)>> ELSE <<>>)
    \o (IF b.metrics_port.some
        THEN <<"--metrics-server-port", ToStr(b.metrics_port.v)>> ELSE <<>>)
    \o (IF b.owner.some THEN <<"--owner", b.owner.v>> ELSE <<>>)
    \o (IF b.max_archived_log_files.some
        THEN <<"--max-archived-log-files", ToStr(b.max_archived_log_files.v)>> ELSE <<>>)
    \o (IF b.max_log_files.some
        THEN <<"--max-log-files", ToStr(b.max_log_files.v)>> ELSE <<>>)

\* args.push("--rewards-address"); args.push(self.rewards_address.to_string())
RewardsArgs(b) == <<"--rewards-address", AddressToString(b.rewards_address)>>

\* a Custom network emitted without its data-payments pair
EvmArgs_Partial(n) ==
    <<EvmNetworkToString(n)>>
    \o (IF n.tag = "Custom"
        THEN <<"--rpc-url", UrlToString(n.rpc_url_http),
               "--payment-token-address", AddressToString(n.payment_token_address)>>
        ELSE <<>>)

\* args.push(self.evm_network.to_string()); for Custom the three pairs follow
EvmArgs(n) ==
    <<EvmNetworkToString(n)>>
    \o (IF n.tag = "Custom"
        THEN <<"--rpc-url", UrlToString(n.rpc_url_http),
               "--payment-token-address", AddressToString(n.payment_token_address),
               "--data-payments-address", AddressToString(n.data_payments_address)>>
        ELSE <<>>)

\* the rewards address pushed before the bootstrap peers
NodeArgs_RewardsBeforePeers(b) ==
    NodePreamble(b) \o NodeOptionalArgs(b) \o RewardsArgs(b)
    \o PeerArgs(b.bootstrap_peers) \o EvmArgs(b.evm_network)

\* the argument list in the order build() pushes it
NodeArgs(b) ==
    NodePreamble(b) \o NodeOptionalArgs(b) \o PeerArgs(b.bootstrap_peers)
    \o RewardsArgs(b) \o EvmArgs(b.evm_network)

\* a build that labels the service after its binary, not after its name
BuildNode_LabelFromProgram(b) ==
    LET label == ParseLabel(b.name)
    IN  IF ~label.ok THEN BuildErr
        ELSE [tag |-> "Ok",
              args |-> NodeArgs(b),
              autostart |-> b.autostart,
              contents |-> None,
              environment |-> b.env_variables,
              label |-> "safenode",
              program |-> b.safenode_path,
              username |-> b.service_user,
              working_directory |-> None]

\* a build that goes on with the name as label when the name does not parse
BuildNode_LabelUnchecked(b) ==
    [tag |-> "Ok",
     args |-> NodeArgs(b),
     autostart |-> b.autostart,
     contents |-> None,
     environment |-> b.env_variables,
     label |-> b.name,
     program |-> b.safenode_path,
     username |-> b.service_user,
     working_directory |-> None]

\* a node build that always autostarts, as the auditor and faucet builds do
BuildNode_AutostartAlways(b) ==
    LET label == ParseLabel(b.name)
    IN  IF ~label.ok THEN BuildErr
        ELSE [tag |-> "Ok",
              args |-> NodeArgs(b),
              autostart |-> TRUE,
              contents |-> None,
              environment |-> b.env_variables,
              label |-> label.label,
              program |-> b.safenode_path,
              username |-> b.service_user,
              working_directory |-> None]

\* InstallNodeServiceCtxBuilder::build
BuildNode(b) ==
    LET label == ParseLabel(b.name)
    IN  IF ~label.ok THEN BuildErr
        ELSE [tag |-> "Ok",
              args |-> NodeArgs(b),
              autostart |-> b.autostart,
              contents |-> None,
              environment |-> b.env_variables,
              label |-> label.label,
              program |-> b.safenode_path,
              username |-> b.service_user,
              working_directory |-> None]

(***************************************************************************)
(* InstallAuditorServiceCtxBuilder::build (config.rs:233-266)              *)
(***************************************************************************)

\* the key pushed inside the block that handles a non-empty peer list
AuditorArgs_KeyOnlyWithPeers(b) ==
    <<"--log-output-dest", PathToStringLossy(b.log_dir_path)>>
    \o (IF b.bootstrap_peers # <<>>
        THEN PeerArgs(b.bootstrap_peers)
             \o (IF b.beta_encryption_key.some
                 THEN <<"--beta-encryption-key", b.beta_encryption_key.v>> ELSE <<>>)
        ELSE <<>>)

\* args of InstallAuditorServiceCtxBuilder::build, in the order it pushes them
AuditorArgs(b) ==
    <<"--log-output-dest", PathToStringLossy(b.log_dir_path)>>
    \o PeerArgs(b.bootstrap_peers)
    \o (IF b.beta_encryption_key.some
        THEN <<"--beta-encryption-key", b.beta_encryption_key.v>> ELSE <<>>)

\* an auditor build that runs the service in its log directory
BuildAuditor_WorkDirLogs(b) ==
    LET label == ParseLabel(b.name)
    IN  IF ~label.ok THEN BuildErr
        ELSE [tag |-> "Ok",
              args |-> AuditorArgs(b),
              autostart |-> TRUE,
              contents |-> None,
              environment |-> b.env_variables,
              label |-> label.label,
              program |-> b.auditor_path,
              username |-> Some(b.service_user),
              working_directory |-> Some(b.log_dir_path)]

\* InstallAuditorServiceCtxBuilder::build
BuildAuditor(b) ==
    LET label == ParseLabel(b.name)
    IN  IF ~label.ok THEN BuildErr
        ELSE [tag |-> "Ok",
              args |-> AuditorArgs(b),
              autostart |-> TRUE,
              contents |-> None,
              environment |-> b.env_variables,
              label |-> label.label,
              program |-> b.auditor_path,
              username |-> Some(b.service_user),
              working_directory |-> None]

(***************************************************************************)
(* InstallFaucetServiceCtxBuilder::build (config.rs:279-310)               *)
(***************************************************************************)

\* 'server' pushed before the bootstrap peers
FaucetArgs_ServerBeforePeers(b) ==
    <<"--log-output-dest", PathToStringLossy(b.log_dir_path)>>
    \o <<"server">>
    \o PeerArgs(b.bootstrap_peers)

\* args of InstallFaucetServiceCtxBuilder::build, in the order it pushes them
FaucetArgs(b) ==
    <<"--log-output-dest", PathToStringLossy(b.log_dir_path)>>
    \o PeerArgs(b.bootstrap_peers)
    \o <<"server">>

\* a faucet build that leaves the run-as-user unset
BuildFaucet_UserUnset(b) ==
    LET label == ParseLabel(b.name)
    IN  IF ~label.ok THEN BuildErr
        ELSE [tag |-> "Ok",
              args |-> FaucetArgs(b),
              autostart |-> TRUE,
              contents |-> None,
              environment |-> b.env_variables,
              label |-> label.label,
              program |-> b.faucet_path,
              username |-> None,
              working_directory |-> None]

\* InstallFaucetServiceCtxBuilder::build
BuildFaucet(b) ==
    LET label == ParseLabel(b.name)
    IN  IF ~label.ok THEN BuildErr
        ELSE [tag |-> "Ok",
              args |-> FaucetArgs(b),
              autostart |-> TRUE,
              contents |-> None,
              environment |-> b.env_variables,
              label |-> label.label,
              program |-> b.faucet_path,
              username |-> Some(b.service_user),
              working_directory |-> None]

(***************************************************************************)
(* Fleet provisioning planner (spec.md 4.2): the expansion of one          *)
(* AddNodeServiceOptions request (config.rs:190-220) into count node       *)
(* builders and their descriptors.  The planner's own code is not among    *)
(* the sources; its steps are those the specification states.              *)
(***************************************************************************)

\* the port roles of a request, in the order their ranges are validated
Roles == <<"node_port", "metrics_port", "rpc_port">>

\* the declared ranges of a request, in role order
DeclaredRanges(req) ==
    LET IsSome(o) == o.some
        Value(k) == req[Roles[k]]
    IN  SelectSeq([k \in 1..Len(Roles) |-> Value(k)], IsSome)

\* step 1: the outcome of the first declared range that validate refuses, or Ok
RECURSIVE ValidateAll(_, _, _)
ValidateAll(ranges, count, checks) ==
    IF ranges = <<>> THEN ValidateOk
    ELSE LET v == Validate(Head(ranges).v, count, checks)
         IN  IF v.tag # "Ok" THEN v ELSE ValidateAll(Tail(ranges), count, checks)

\* step 2: the identity of instance i: the bare base name for one instance,
\* the base name with the index as suffix for more
InstanceName(base, i, count) == IF count = 1 THEN base ELSE base \o ToStr(i)

\* step 2: the i-th port of a role's range; a Single range gives its one port
NthPort(r, i, checks) ==
    IF r.tag = "Single" THEN r.start ELSE U16Add(r.start, i, checks)

\* the port of a role for instance i: unset when the role declares no range
RolePort(req, role, i) ==
    IF req[role].some THEN Some(NthPort(req[role].v, i, req.checks)) ELSE None

\* the fleet-wide parameters, those of create_default_builder (config.rs:351-377)
FleetTemplate ==
    [autostart |-> TRUE,
     bootstrap_peers |-> <<>>,
     data_dir_path |-> <<"/data">>,
     env_variables |-> None,
     evm_network |-> [tag |-> "ArbitrumOne"],
     genesis |-> FALSE,
     home_network |-> FALSE,
     local |-> FALSE,
     log_dir_path |-> <<"/logs">>,
     log_format |-> None,
     name |-> "",
     max_archived_log_files |-> None,
     max_log_files |-> None,
     metrics_port |-> None,
     node_ip |-> None,
     node_port |-> None,
     owner |-> None,
     rewards_address |-> [text |-> "0x03B770D9cD32077cC0bF330c13C114a87643B124"],
     rpc_socket_addr |-> [ip |-> <<127, 0, 0, 1>>, port |-> 8080],
     safenode_path |-> <<"/bin/safenode">>,
     service_user |-> None,
     upnp |-> FALSE]

\* step 3: the configuration of instance i: the shared parameters with the
\* instance's identity and ports
InstanceConfig(req, i) ==
    LET rpc == RolePort(req, "rpc_port", i)
    IN  [FleetTemplate EXCEPT
            !.name = InstanceName(req.base_name, i, req.count),
            !.node_port = RolePort(req, "node_port", i),
            !.metrics_port = RolePort(req, "metrics_port", i),
            !.rpc_socket_addr =
                [ip |-> <<127, 0, 0, 1>>, port |-> IF rpc.some THEN rpc.v ELSE 8080]]

PlanOk(ds) == [tag |-> "Ok", descriptors |-> ds]
PlanErr(why) == [tag |-> "Err", why |-> why, descriptors |-> <<>>]
PlanPanic == [tag |-> "Panic", descriptors |-> <<>>]

\* step 4: the builder run on instance i, i + 1, .., the descriptors collected
\* in index order; the first failing build aborts the batch
RECURSIVE BuildFrom(_, _, _)
BuildFrom(req, i, acc) ==
    IF i >= req.count THEN PlanOk(acc)
    ELSE LET b == InstanceConfig(req, i)
             ports == {b.node_port, b.metrics_port, [some |-> TRUE, v |-> b.rpc_socket_addr.port]}
         IN  IF \E p \in ports : p.some /\ p.v < 0 THEN PlanPanic
             ELSE LET d == BuildNode(b)
                  IN  IF d.tag # "Ok" THEN PlanErr("label")
                      ELSE BuildFrom(req, i + 1, Append(acc, d))

\* the planner: validate every declared range, then build every instance
Plan(req) ==
    LET v == ValidateAll(DeclaredRanges(req), req.count, req.checks)
    IN  IF v.tag = "Panic" THEN PlanPanic
        ELSE IF v.tag = "Err" THEN PlanErr(v.msg)
        ELSE BuildFrom(req, 0, <<>>)

(***************************************************************************)
(* The wallet popup: node-launchpad's BetaProgramme component              *)
(* (beta_programme.rs).  A text is a sequence of one-character strings.    *)
(***************************************************************************)

NoPopup == [tag |-> "none"]

\* tui_input::Input: the value and the cursor, a position in 0..Len(value)
Input(value, cursor) == [value |-> value, cursor |-> cursor]

\* Input::with_value / From<String>: the value with the cursor at its end
WithValue(value) == Input(value, Len(value))

\* InputRequest::InsertChar: c goes in at the cursor, the cursor moves past it
InsertChar(i, c) ==
    Input(SubSeq(i.value, 1, i.cursor) \o <<c>>
             \o SubSeq(i.value, i.cursor + 1, Len(i.value)),
          i.cursor + 1)

\* InputRequest::DeletePrevChar: nothing at cursor 0, else the character
\* before the cursor goes and the cursor moves back
DeletePrevChar(i) ==
    IF i.cursor = 0 THEN i
    ELSE Input(SubSeq(i.value, 1, i.cursor - 1)
                  \o SubSeq(i.value, i.cursor + 1, Len(i.value)),
               i.cursor - 1)

\* InputRequest::GoToPrevChar
GoToPrevChar(i) == IF i.cursor = 0 THEN i ELSE Input(i.value, i.cursor - 1)

\* keys: a code and, for Char, the character
Key(code) == [code |-> code, c |-> ""]
CharKey(c) == [code |-> "Char", c |-> c]

\* Input::handle_event of a key without modifiers
HandleEvent(i, key) ==
    IF key.code = "Backspace" THEN DeletePrevChar(i)
    ELSE IF key.code = "Left" THEN GoToPrevChar(i)
    ELSE IF key.code = "Char" THEN InsertChar(i, key.c)
    ELSE i

\* the character classes of the pattern ^0x[a-fA-F0-9]{40}$
IsHex(c) ==
    c \in {"0", "1", "2", "3", "4", "5", "6", "7", "8", "9",
           "a", "b", "c", "d", "e", "f", "A", "B", "C", "D", "E", "F"}

\* Regex::is_match of ^0x[a-fA-F0-9]{40}$
IsMatch(v) ==
    /\ Len(v) = 2 + HexDigits
    /\ v[1] = "0"
    /\ v[2] = "x"
    /\ \A k \in 3..Len(v) : IsHex(v[k])

\* char::to_lowercase of the characters that occur, str::to_lowercase
UpperCase == <<"A", "B", "C", "D", "E", "F", "X", "Y">>
LowerCase == <<"a", "b", "c", "d", "e", "f", "x", "y">>
LowerChar(c) ==
    IF \E k \in DOMAIN UpperCase : UpperCase[k] = c
    THEN LowerCase[CHOOSE k \in DOMAIN UpperCase : UpperCase[k] = c]
    ELSE c
ToLowercase(v) == [k \in DOMAIN v |-> LowerChar(v[k])]

\* the actions the popup sends back
StoreDiscordUserName(v) == [a |-> "StoreDiscordUserName", v |-> v]
UpdateBetaProgrammeUsername(v) ==
    [a |-> "OptionsActions::UpdateBetaProgrammeUsername", v |-> v]
SwitchScene(scene) == [a |-> "SwitchScene", scene |-> scene]
SwitchInputMode(mode) == [a |-> "SwitchInputMode", mode |-> mode]

\* BetaProgramme::new(username)
New(username) ==
    [active |-> FALSE,
     state |-> IF username = <<>> THEN "ShowTCs" ELSE "DiscordIdAlreadySet",
     discord_input_field |-> WithValue(username),
     old_value |-> <<>>,
     back_to |-> "Status",
     can_save |-> FALSE]

\* BetaProgramme::validate
BetaProgrammeValidate(p) ==
    IF p.discord_input_field.value = <<>>
    THEN [p EXCEPT !.can_save = FALSE]
    ELSE [p EXCEPT !.can_save = IsMatch(p.discord_input_field.value)]

\* what a key handler leaves: the component and the actions sent back
Handled(p, actions) == [popup |-> p, actions |-> actions]

\* a capture_inputs whose Enter arm saves on can_save as it stands
CaptureInputs_EnterTrustsCanSave(p, key) ==
    IF key.code = "Enter"
    THEN IF p.can_save
         THEN LET username == ToLowercase(p.discord_input_field.value)
              IN  Handled([p EXCEPT !.discord_input_field = WithValue(username),
                                    !.state = "DiscordIdAlreadySet"],
                          <<StoreDiscordUserName(username),
                            UpdateBetaProgrammeUsername(username),
                            SwitchScene("Status")>>)
         ELSE Handled(p, <<>>)
    ELSE IF key.code = "Esc"
    THEN Handled([p EXCEPT !.discord_input_field = WithValue(p.old_value)],
                 <<SwitchScene(p.back_to)>>)
    ELSE IF key = CharKey(" ") THEN Handled(p, <<>>)
    ELSE IF key.code = "Backspace"
    THEN Handled(BetaProgrammeValidate(
                    [p EXCEPT !.discord_input_field = HandleEvent(@, key)]), <<>>)
    ELSE IF Len(p.discord_input_field.value) < InputSize
    THEN Handled(BetaProgrammeValidate(
                    [p EXCEPT !.discord_input_field = HandleEvent(@, key)]), <<>>)
    ELSE Handled(p, <<>>)

\* a capture_inputs that still takes a character when the value is full
CaptureInputs_LimitInclusive(p, key) ==
    IF key.code = "Enter"
    THEN LET q == BetaProgrammeValidate(p)
         IN  IF q.can_save
             THEN LET username == ToLowercase(q.discord_input_field.value)
                  IN  Handled([q EXCEPT !.discord_input_field = WithValue(username),
                                        !.state = "DiscordIdAlreadySet"],
                              <<StoreDiscordUserName(username),
                                UpdateBetaProgrammeUsername(username),
                                SwitchScene("Status")>>)
             ELSE Handled(q, <<>>)
    ELSE IF key.code = "Esc"
    THEN Handled([p EXCEPT !.discord_input_field = WithValue(p.old_value)],
                 <<SwitchScene(p.back_to)>>)
    ELSE IF key = CharKey(" ") THEN Handled(p, <<>>)
    ELSE IF key.code = "Backspace"
    THEN Handled(BetaProgrammeValidate(
                    [p EXCEPT !.discord_input_field = HandleEvent(@, key)]), <<>>)
    ELSE IF Len(p.discord_input_field.value) <= InputSize
    THEN Handled(BetaProgrammeValidate(
                    [p EXCEPT !.discord_input_field = HandleEvent(@, key)]), <<>>)
    ELSE Handled(p, <<>>)

\* BetaProgramme::capture_inputs
CaptureInputs(p, key) ==
    IF key.code = "Enter"
    THEN LET q == BetaProgrammeValidate(p)
         IN  IF q.can_save
             THEN LET username == ToLowercase(q.discord_input_field.value)
                  IN  Handled([q EXCEPT !.discord_input_field = WithValue(username),
                                        !.state = "DiscordIdAlreadySet"],
                              <<StoreDiscordUserName(username),
                                UpdateBetaProgrammeUsername(username),
                                SwitchScene("Status")>>)
             ELSE Handled(q, <<>>)
    ELSE IF key.code = "Esc"
    THEN Handled([p EXCEPT !.discord_input_field = WithValue(p.old_value)],
                 <<SwitchScene(p.back_to)>>)
    ELSE IF key = CharKey(" ") THEN Handled(p, <<>>)
    ELSE IF key.code = "Backspace"
    THEN Handled(BetaProgrammeValidate(
                    [p EXCEPT !.discord_input_field = HandleEvent(@, key)]), <<>>)
    ELSE IF Len(p.discord_input_field.value) < InputSize
    THEN Handled(BetaProgrammeValidate(
                    [p EXCEPT !.discord_input_field = HandleEvent(@, key)]), <<>>)
    ELSE Handled(p, <<>>)

\* a handle_key_events without the early return of an inactive popup
HandleKeyEvents_NoActiveCheck(p, key) ==
    IF p.state \in {"DiscordIdAlreadySet", "AcceptTCsAndEnterDiscordId"}
    THEN CaptureInputs(p, key)
    ELSE IF p.state = "ShowTCs"
    THEN IF key \in {CharKey("y"), CharKey("Y")}
         THEN IF p.discord_input_field.value # <<>>
              THEN Handled([p EXCEPT !.state = "DiscordIdAlreadySet"], <<>>)
              ELSE Handled([p EXCEPT !.state = "AcceptTCsAndEnterDiscordId"], <<>>)
         ELSE IF key.code = "Esc"
         THEN Handled([p EXCEPT !.state = "ShowTCs"], <<SwitchScene(p.back_to)>>)
         ELSE Handled(p, <<>>)
    ELSE IF key.code = "Esc"
         THEN Handled([p EXCEPT !.state = "ShowTCs"], <<SwitchScene(p.back_to)>>)
         ELSE Handled(p, <<SwitchScene(p.back_to)>>)

\* a handle_key_events that captures input while the terms are still shown
HandleKeyEvents_TCsSkipped(p, key) ==
    IF ~p.active THEN Handled(p, <<>>)
    ELSE IF p.state \in {"DiscordIdAlreadySet", "AcceptTCsAndEnterDiscordId", "ShowTCs"}
    THEN CaptureInputs(p, key)
    ELSE IF key.code = "Esc"
         THEN Handled([p EXCEPT !.state = "ShowTCs"], <<SwitchScene(p.back_to)>>)
         ELSE Handled(p, <<SwitchScene(p.back_to)>>)

\* Component::handle_key_events
HandleKeyEvents(p, key) ==
    IF ~p.active THEN Handled(p, <<>>)
    ELSE IF p.state \in {"DiscordIdAlreadySet", "AcceptTCsAndEnterDiscordId"}
    THEN CaptureInputs(p, key)
    ELSE IF p.state = "ShowTCs"
    THEN IF key \in {CharKey("y"), CharKey("Y")}
         THEN IF p.discord_input_field.value # <<>>
              THEN Handled([p EXCEPT !.state = "DiscordIdAlreadySet"], <<>>)
              ELSE Handled([p EXCEPT !.state = "AcceptTCsAndEnterDiscordId"], <<>>)
         ELSE IF key.code = "Esc"
         THEN Handled([p EXCEPT !.state = "ShowTCs"], <<SwitchScene(p.back_to)>>)
         ELSE Handled(p, <<>>)
    ELSE \* RejectTCs
         IF key.code = "Esc"
         THEN Handled([p EXCEPT !.state = "ShowTCs"], <<SwitchScene(p.back_to)>>)
         ELSE Handled(p, <<SwitchScene(p.back_to)>>)

\* what update leaves: the component and the optional action sent back
Updated(p, ret) == [popup |-> p, ret |-> ret]

\* an update that opens the popup without caching the input's value
Update_KeepsOldValue(p, action) ==
    IF action.a = "SwitchScene"
    THEN IF action.scene \in {"StatusBetaProgrammePopUp", "OptionsBetaProgrammePopUp"}
         THEN Updated([p EXCEPT !.active = TRUE,
                                !.back_to = IF action.scene = "StatusBetaProgrammePopUp"
                                            THEN "Status" ELSE "Options"],
                      Some(SwitchInputMode("Entry")))
         ELSE Updated([p EXCEPT !.active = FALSE], None)
    ELSE Updated(p, None)

\* Component::update
Update(p, action) ==
    IF action.a = "SwitchScene"
    THEN IF action.scene \in {"StatusBetaProgrammePopUp", "OptionsBetaProgrammePopUp"}
         THEN Updated([p EXCEPT !.active = TRUE,
                                !.old_value = p.discord_input_field.value,
                                !.back_to = IF action.scene = "StatusBetaProgrammePopUp"
                                            THEN "Status" ELSE "Options"],
                      Some(SwitchInputMode("Entry")))
         ELSE Updated([p EXCEPT !.active = FALSE], None)
    ELSE Updated(p, None)

(***************************************************************************)
(* Operations                                                              *)
(***************************************************************************)

Init ==
    /\ pc = "idle"
    /\ call = NoCall
    /\ out = NoOut
    /\ popup = NoPopup
    /\ steps = 0

\* PortRange::parse(text)
DoParse ==
    /\ pc = "idle"
    /\ \E n \in 0..MaxLen :
          \E t \in [1..n -> Chars] :
             /\ call' = [op |-> "parse", text |-> t]
             /\ out' = Parse(t)
    /\ pc' = "done"
    /\ UNCHANGED <<popup, steps>>

\* range.validate(count), built with or without overflow checks
DoValidate ==
    /\ pc = "idle"
    /\ \E r \in PortRanges, c \in Counts, checks \in BOOLEAN :
          /\ call' = [op |-> "validate", range |-> r, count |-> c, checks |-> checks]
          /\ out' = Validate(r, c, checks)
    /\ pc' = "done"
    /\ UNCHANGED <<popup, steps>>

\* the values the builder fields are drawn from (those of the unit tests of
\* config.rs:351-453 and 525-541 where the tests give one)
Peers ==
    {[text |-> "/ip4/127.0.0.1/tcp/8080"], [text |-> "/ip4/192.168.1.1/tcp/8081"]}
PeerLists == SeqsUpTo(Peers, MaxPeers)
Names == {"test-node", BadName}
EnvChoices == {None, Some(<<<<"VAR1", "value1">>, <<"VAR2", "value2">>>>)}
ArbitrumOne == [tag |-> "ArbitrumOne"]
CustomNet ==
    [tag |-> "Custom",
     rpc_url_http |-> [scheme |-> "http", host |-> "localhost", port |-> 8545, path |-> "/"],
     payment_token_address |-> [text |-> "0x5FbDB2315678afecb367f032d93F642f64180aa3"],
     data_payments_address |-> [text |-> "0x8464135c8F25Da09e49BC8782676a84730C318bC"]]
LogDirs == {<<"/logs">>, <<"/lo", BadBytes, "gs">>}

NodeBuilders ==
    [autostart : BOOLEAN,
     bootstrap_peers : PeerLists,
     data_dir_path : {<<"/data">>},
     env_variables : EnvChoices,
     evm_network : {ArbitrumOne, CustomNet},
     genesis : BOOLEAN,
     home_network : BOOLEAN,
     local : BOOLEAN,
     log_dir_path : {<<"/logs">>},
     log_format : {None, Some("Json")},
     name : Names,
     max_archived_log_files : {None, Some(10)},
     max_log_files : {None, Some(5)},
     metrics_port : {None, Some(9090)},
     node_ip : {None, Some(<<192, 168, 1, 1>>)},
     node_port : {None, Some(12345)},
     owner : {None, Some("test-owner")},
     rewards_address : {[text |-> "0x03B770D9cD32077cC0bF330c13C114a87643B124"]},
     rpc_socket_addr : {[ip |-> <<127, 0, 0, 1>>, port |-> 8080]},
     safenode_path : {<<"/bin/safenode">>},
     service_user : {None, Some("safenode-user")},
     upnp : BOOLEAN]

AuditorBuilders ==
    [auditor_path : {<<"/bin/sn_auditor">>},
     beta_encryption_key : {None, Some("test-key")},
     bootstrap_peers : PeerLists,
     env_variables : EnvChoices,
     log_dir_path : LogDirs,
     name : Names,
     service_user : {"safe", "root"}]

FaucetBuilders ==
    [bootstrap_peers : PeerLists,
     env_variables : EnvChoices,
     faucet_path : {<<"/bin/faucet">>},
     local : BOOLEAN,
     log_dir_path : LogDirs,
     name : Names,
     service_user : {"safe", "root"}]

\* InstallNodeServiceCtxBuilder { .. }.build()
DoBuildNode ==
    /\ pc = "idle"
    /\ \E b \in NodeBuilders :
          /\ call' = [op |-> "build_node", builder |-> b]
          /\ out' = BuildNode(b)
    /\ pc' = "done"
    /\ UNCHANGED <<popup, steps>>

\* InstallAuditorServiceCtxBuilder { .. }.build()
DoBuildAuditor ==
    /\ pc = "idle"
    /\ \E b \in AuditorBuilders :
          /\ call' = [op |-> "build_auditor", builder |-> b]
          /\ out' = BuildAuditor(b)
    /\ pc' = "done"
    /\ UNCHANGED <<popup, steps>>

\* InstallFaucetServiceCtxBuilder { .. }.build()
DoBuildFaucet ==
    /\ pc = "idle"
    /\ \E b \in FaucetBuilders :
          /\ call' = [op |-> "build_faucet", builder |-> b]
          /\ out' = BuildFaucet(b)
    /\ pc' = "done"
    /\ UNCHANGED <<popup, steps>>

\* the ranges and base names fleet requests are drawn from
FleetRanges ==
    {Single(8081), Range(65534, 65535), Range(0, 65535)}
    \cup {Range(8081, 8081 + k) : k \in 1..MaxCount}
FleetRangeChoices == {None} \cup {Some(r) : r \in FleetRanges}
BaseNames == {"safenode", "svc", BadName}

FleetRequests ==
    [count : 0..MaxCount,
     base_name : BaseNames,
     node_port : FleetRangeChoices,
     metrics_port : FleetRangeChoices,
     rpc_port : FleetRangeChoices,
     checks : BOOLEAN]

\* one fleet expansion
DoPlan ==
    /\ pc = "idle"
    /\ \E req \in FleetRequests :
          /\ call' = [op |-> "plan", request |-> req]
          /\ out' = Plan(req)
    /\ pc' = "done"
    /\ UNCHANGED <<popup, steps>>

SpecPlan == Init /\ [][DoPlan]_vars

\* the wallet addresses a popup is created with: none, a 0x prefix, an address
\* of mixed case, that address short of its last digit, with a last character
\* that is no hex digit, and with one digit too many
MixedAddress == <<"0", "x">> \o [k \in 1..HexDigits |-> IF k % 2 = 1 THEN "a" ELSE "F"]
Usernames ==
    {<<>>,
     <<"0", "x">>,
     MixedAddress,
     SubSeq(MixedAddress, 1, Len(MixedAddress) - 1),
     SubSeq(MixedAddress, 1, Len(MixedAddress) - 1) \o <<"y">>,
     MixedAddress \o <<"a">>}

\* the keys and the actions a popup is sent
Keys ==
    {Key("Enter"), Key("Esc"), Key("Backspace"), Key("Left"),
     CharKey(" "), CharKey("F"), CharKey("y"), CharKey("Y")}
Actions ==
    {SwitchScene("StatusBetaProgrammePopUp"), SwitchScene("OptionsBetaProgrammePopUp"),
     SwitchScene("Status"), SwitchInputMode("Navigation")}

\* BetaProgramme::new on one of the addresses
InitPopup ==
    /\ pc = "popup"
    /\ call = NoCall
    /\ out = NoOut
    /\ popup \in {New(u) : u \in Usernames}
    /\ steps = 0

\* one call of update
DoUpdate ==
    /\ pc = "popup"
    /\ steps < MaxSteps
    /\ \E action \in Actions :
          LET r == Update(popup, action)
          IN  /\ call' = [op |-> "update", action |-> action, before |-> popup]
              /\ out' = [tag |-> "update", ret |-> r.ret]
              /\ popup' = r.popup
    /\ steps' = steps + 1
    /\ UNCHANGED pc

\* one call of handle_key_events
DoKey ==
    /\ pc = "popup"
    /\ steps < MaxSteps
    /\ \E key \in Keys :
          LET r == HandleKeyEvents(popup, key)
          IN  /\ call' = [op |-> "key", key |-> key, before |-> popup]
              /\ out' = [tag |-> "key", actions |-> r.actions]
              /\ popup' = r.popup
    /\ steps' = steps + 1
    /\ UNCHANGED pc

NextPopup == DoUpdate \/ DoKey
SpecPopup == InitPopup /\ [][NextPopup]_vars

NextBuild == DoBuildNode \/ DoBuildAuditor \/ DoBuildFaucet

SpecBuild == Init /\ [][NextBuild]_vars

NextPort == DoParse \/ DoValidate

SpecPort == Init /\ [][NextPort]_vars

(***************************************************************************)
(* Properties of PortRange                                                 *)
(***************************************************************************)

\* the data-model invariant of a PortRange: a Range has start < end
ValidRange(r) == r.tag = "Single" \/ r.start < r.end

\* the number of ports a valid PortRange denotes
PortsOf(r) == IF r.tag = "Single" THEN 1 ELSE r.end - r.start + 1

Validated == pc = "done" /\ call.op = "validate"

\* C1: for every PortRange satisfying the data-model invariant and every count,
\* validate returns Ok if and only if the count equals the range's cardinality.
C1_ValidateIffCardinality ==
    (Validated /\ ValidRange(call.range))
        => ((out.tag = "Ok") <=> (call.count = PortsOf(call.range)))

\* C2: whenever validate fails, the error names the count it was given and the
\* number of ports of the range (1 for Single, end - start + 1 for Range).
C2_ErrorCarriesBothNumbers ==
    (Validated /\ ValidRange(call.range) /\ out.tag # "Ok")
        => out = ValidateErr(call.count, PortsOf(call.range))

\* a text u16::from_str accepts: decimal digits, at least one, after an optional
\* '+', denoting a value of at most 65535
DigitsOf(t) == IF t # <<>> /\ t[1] = "+" THEN Tail(t) ELSE t

RECURSIVE NumVal(_)
NumVal(d) ==
    IF d = <<>> THEN 0
    ELSE NumVal(SubSeq(d, 1, Len(d) - 1)) * 10 + DigitVal(d[Len(d)])

IsU16Text(t) ==
    /\ DigitsOf(t) # <<>>
    /\ \A i \in 1..Len(DigitsOf(t)) : IsDigit(DigitsOf(t)[i])
    /\ NumVal(DigitsOf(t)) <= U16Max

U16Of(t) == NumVal(DigitsOf(t))

\* the positions of t at which it reads start '-' end with both parts u16 texts
RangeCuts(t) ==
    {i \in 1..Len(t) :
        /\ t[i] = "-"
        /\ IsU16Text(SubSeq(t, 1, i - 1))
        /\ IsU16Text(SubSeq(t, i + 1, Len(t)))}

Parsed == pc = "done" /\ call.op = "parse"

\* C3: parse returns Single(p) for a bare u16 integer, Range(start, end) for
\* 'start-end' with both parts u16 integers and start < end, and fails for
\* every other text; every Range it returns has start < end.  (An integer is
\* written as u16::from_str reads it: digits after an optional '+'.)
C3_ParseShapes ==
    Parsed =>
        LET t == call.text
            cuts == RangeCuts(t)
        IN  /\ IsU16Text(t) => out = Single(U16Of(t))
            /\ (~IsU16Text(t) /\ cuts # {}) =>
                   \A i \in cuts :
                      LET s == U16Of(SubSeq(t, 1, i - 1))
                          e == U16Of(SubSeq(t, i + 1, Len(t)))
                      IN  IF s < e THEN out = Range(s, e) ELSE out.tag = "Err"
            /\ (~IsU16Text(t) /\ cuts = {}) => out.tag = "Err"
            /\ out.tag = "Range" => out.start < out.end

\* parse has read "+1-19" as the range 1..19
C3_Witness ==
    /\ Parsed
    /\ call.text = <<"+", "1", "-", "1", "9">>
    /\ out = Range(1, 19)

(***************************************************************************)
(* Properties of the builders                                              *)
(***************************************************************************)

BuiltNode == pc = "done" /\ call.op = "build_node" /\ out.tag = "Ok"
BuiltAuditor == pc = "done" /\ call.op = "build_auditor" /\ out.tag = "Ok"
BuiltFaucet == pc = "done" /\ call.op = "build_faucet" /\ out.tag = "Ok"
Built == BuiltNode \/ BuiltAuditor \/ BuiltFaucet

\* how often x occurs in the sequence a, and where it occurs first
Occurrences(a, x) == Cardinality({i \in DOMAIN a : a[i] = x})
IndexOf(a, x) ==
    LET at == {i \in DOMAIN a : a[i] = x}
    IN  CHOOSE i \in at : \A j \in at : i <= j

\* the last n elements of a
LastN(a, n) == SubSeq(a, Len(a) - n + 1, Len(a))

\* the texts the unit tests expect for the sample values (config.rs:466-476,
\* 498-514, 545-581)
RpcText == "127.0.0.1:8080"
DataDirText == "/data"
RewardsText == "0x03B770D9cD32077cC0bF330c13C114a87643B124"
NamedToken == "evm-arbitrum-one"
CustomTail ==
    <<"evm-custom",
      "--rpc-url", "http://localhost:8545/",
      "--payment-token-address", "0x5FbDB2315678afecb367f032d93F642f64180aa3",
      "--data-payments-address", "0x8464135c8F25Da09e49BC8782676a84730C318bC">>
TwoPeersText == "/ip4/127.0.0.1/tcp/8080,/ip4/192.168.1.1/tcp/8081"
TwoPeers == <<[text |-> "/ip4/127.0.0.1/tcp/8080"], [text |-> "/ip4/192.168.1.1/tcp/8081"]>>
LogDirText(p) == IF p = <<"/logs">> THEN "/logs" ELSE "/lo\\u{FFFD}gs"

\* the peers' texts joined by ',' in input order, built from the left
JoinedText(peers) ==
    LET acc[i \in 1..Len(peers)] ==
            IF i = 1 THEN peers[1].text ELSE acc[i - 1] \o "," \o peers[i].text
    IN  acc[Len(peers)]

\* no optional field of a node builder is set
NoOptionals(b) ==
    /\ ~b.genesis /\ ~b.home_network /\ ~b.local /\ ~b.upnp
    /\ ~b.log_format.some /\ ~b.node_ip.some /\ ~b.node_port.some
    /\ ~b.metrics_port.some /\ ~b.owner.some
    /\ ~b.max_archived_log_files.some /\ ~b.max_log_files.some

\* C4: a node descriptor's arguments start with --rpc <addr> --root-dir <dir>
\* --log-output-dest <dir>; with no optional field, no peer and a named network
\* they are exactly those six, then --rewards-address <addr> <token>; the label
\* is the configured name and the program the configured binary path.
C4_NodePreamble ==
    BuiltNode =>
        LET b == call.builder
            a == out.args
        IN  /\ Len(a) >= 6
            /\ SubSeq(a, 1, 6) = <<"--rpc", RpcText, "--root-dir", DataDirText,
                                   "--log-output-dest", "/logs">>
            /\ (NoOptionals(b) /\ b.bootstrap_peers = <<>> /\ b.evm_network.tag # "Custom")
                  => a = <<"--rpc", RpcText, "--root-dir", DataDirText,
                           "--log-output-dest", "/logs",
                           "--rewards-address", RewardsText, NamedToken>>
            /\ out.label = b.name
            /\ out.program = b.safenode_path

\* the mandatory-only builder of the unit test has produced its nine arguments
C4_Witness ==
    /\ BuiltNode
    /\ NoOptionals(call.builder)
    /\ call.builder.bootstrap_peers = <<>>
    /\ call.builder.evm_network.tag = "ArbitrumOne"
    /\ Len(out.args) = 9
    /\ out.label = "test-node"

\* the items of a node argument list after the preamble, in the documented
\* order: the flag, whether the builder sets it, the value that follows it
NodeItems(b) ==
    <<[flag |-> "--first", on |-> b.genesis, val |-> None],
      [flag |-> "--home-network", on |-> b.home_network, val |-> None],
      [flag |-> "--local", on |-> b.local, val |-> None],
      [flag |-> "--log-format", on |-> b.log_format.some, val |-> Some("json")],
      [flag |-> "--upnp", on |-> b.upnp, val |-> None],
      [flag |-> "--ip", on |-> b.node_ip.some, val |-> Some("192.168.1.1")],
      [flag |-> "--port", on |-> b.node_port.some, val |-> Some("12345")],
      [flag |-> "--metrics-server-port", on |-> b.metrics_port.some, val |-> Some("9090")],
      [flag |-> "--owner", on |-> b.owner.some, val |-> Some("test-owner")],
      [flag |-> "--max-archived-log-files", on |-> b.max_archived_log_files.some,
       val |-> Some("10")],
      [flag |-> "--max-log-files", on |-> b.max_log_files.some, val |-> Some("5")],
      [flag |-> "--peer", on |-> b.bootstrap_peers # <<>>, val |-> None],
      [flag |-> "--rewards-address", on |-> TRUE, val |-> Some(RewardsText)],
      [flag |-> IF b.evm_network.tag = "Custom" THEN "evm-custom" ELSE NamedToken,
       on |-> TRUE, val |-> None]>>

\* C5: each optional item of a node argument list is emitted iff its field is
\* set, at most once, a valued item directly followed by its value, and the
\* emitted items stand after the preamble in the documented relative order.
C5_NodeOptionalOrder ==
    BuiltNode =>
        LET a == out.args
            items == NodeItems(call.builder)
            flags == {items[k].flag : k \in DOMAIN items} \cup {"evm-custom", NamedToken}
            IsFlag(x) == x \in flags
            IsOn(it) == it.on
            emitted == SelectSeq(SubSeq(a, 7, Len(a)), IsFlag)
            wanted == SelectSeq(items, IsOn)
        IN  /\ SelectSeq(SubSeq(a, 1, 6), IsFlag) = <<>>
            /\ Len(emitted) = Len(wanted)
            /\ \A i \in DOMAIN wanted :
                  /\ emitted[i] = wanted[i].flag
                  /\ wanted[i].val.some =>
                        \E p \in 7..(Len(a) - 1) :
                            a[p] = wanted[i].flag /\ a[p + 1] = wanted[i].val.v

\* every optional field set and two bootstrap peers: the list of the unit test
C5_Witness ==
    /\ BuiltNode
    /\ \A k \in DOMAIN NodeItems(call.builder) : NodeItems(call.builder)[k].on
    /\ call.builder.bootstrap_peers = TwoPeers
    /\ SubSeq(out.args, 7, 12) = <<"--first", "--home-network", "--local",
                                   "--log-format", "json", "--upnp">>

\* C6: a named network gives exactly one token, last, and none of the three
\* custom flags; Custom gives evm-custom and then --rpc-url, --payment-token-
\* address, --data-payments-address with their values as the last six arguments.
C6_EvmBranching ==
    BuiltNode =>
        LET a == out.args
            n == call.builder.evm_network
        IN  IF n.tag = "Custom"
            THEN /\ Len(a) >= 7
                 /\ LastN(a, 7) = CustomTail
                 /\ \A f \in {"evm-custom", "--rpc-url", "--payment-token-address",
                              "--data-payments-address"} : Occurrences(a, f) = 1
                 /\ Occurrences(a, NamedToken) = 0
            ELSE /\ a[Len(a)] = NamedToken
                 /\ Occurrences(a, NamedToken) = 1
                 /\ \A f \in {"evm-custom", "--rpc-url", "--payment-token-address",
                              "--data-payments-address"} : Occurrences(a, f) = 0

\* a Custom network has been built: its data-payments address ends the list
C6_Witness ==
    /\ BuiltNode
    /\ call.builder.evm_network.tag = "Custom"
    /\ out.args[Len(out.args)] = "0x8464135c8F25Da09e49BC8782676a84730C318bC"
    /\ out.args[Len(out.args) - 6] = "evm-custom"

\* C7: for the node, auditor and faucet builders, an empty peer list gives no
\* --peer flag; a non-empty one gives exactly one --peer, directly followed by
\* the single value made of the peers' texts joined by ',' in input order.
C7_PeerOmission ==
    Built =>
        LET a == out.args
            peers == call.builder.bootstrap_peers
        IN  IF peers = <<>>
            THEN Occurrences(a, "--peer") = 0
            ELSE /\ Occurrences(a, "--peer") = 1
                 /\ LET p == IndexOf(a, "--peer")
                    IN  /\ p < Len(a)
                        /\ a[p + 1] = JoinedText(peers)
                        /\ Len(peers) > 1 =>
                              \A q \in DOMAIN peers : Occurrences(a, peers[q].text) = 0

\* the node builder has joined the two peers of the unit test into one value
C7_Witness ==
    /\ BuiltNode
    /\ call.builder.bootstrap_peers = TwoPeers
    /\ \E i \in DOMAIN out.args :
          /\ out.args[i] = "--peer"
          /\ out.args[i + 1] = TwoPeersText

\* C8: a node descriptor holds --rewards-address exactly once, directly
\* followed by the rewards address and then the network token; for a named
\* network that token is the last argument.
C8_RewardsAlwaysPresent ==
    BuiltNode =>
        LET a == out.args
            named == call.builder.evm_network.tag # "Custom"
        IN  /\ Occurrences(a, "--rewards-address") = 1
            /\ LET p == IndexOf(a, "--rewards-address")
               IN  /\ p + 2 <= Len(a)
                   /\ a[p + 1] = RewardsText
                   /\ a[p + 2] = (IF named THEN NamedToken ELSE "evm-custom")
                   /\ named => p + 2 = Len(a)

\* rewards address and token close a list that also carries peers and options
C8_Witness ==
    /\ BuiltNode
    /\ call.builder.bootstrap_peers # <<>>
    /\ call.builder.max_log_files.some
    /\ call.builder.evm_network.tag = "ArbitrumOne"
    /\ LastN(out.args, 3) = <<"--rewards-address", RewardsText, NamedToken>>

\* C9: the faucet's arguments are exactly --log-output-dest <log dir>, then the
\* --peer pair if there are peers, then 'server', which is always last.
C9_FaucetArgs ==
    BuiltFaucet =>
        LET a == out.args
            b == call.builder
        IN  a = <<"--log-output-dest", LogDirText(b.log_dir_path)>>
                \o (IF b.bootstrap_peers = <<>> THEN <<>>
                    ELSE <<"--peer", JoinedText(b.bootstrap_peers)>>)
                \o <<"server">>

\* scenario D: two bootstrap peers
C9_Witness ==
    /\ BuiltFaucet
    /\ call.builder.bootstrap_peers = TwoPeers
    /\ out.args = <<"--log-output-dest", "/logs", "--peer", TwoPeersText, "server">>

\* C10: the auditor's arguments are exactly --log-output-dest <log dir>, then
\* the --peer pair if there are peers, then --beta-encryption-key <key> iff a
\* key is present; the key pair is last and is emitted without peers too.
C10_AuditorArgs ==
    BuiltAuditor =>
        LET a == out.args
            b == call.builder
        IN  a = <<"--log-output-dest", LogDirText(b.log_dir_path)>>
                \o (IF b.bootstrap_peers = <<>> THEN <<>>
                    ELSE <<"--peer", JoinedText(b.bootstrap_peers)>>)
                \o (IF b.beta_encryption_key.some
                    THEN <<"--beta-encryption-key", "test-key">> ELSE <<>>)

\* a key and no peers: the key pair directly follows the log directory
C10_Witness ==
    /\ BuiltAuditor
    /\ call.builder.bootstrap_peers = <<>>
    /\ call.builder.beta_encryption_key.some
    /\ out.args = <<"--log-output-dest", "/logs", "--beta-encryption-key", "test-key">>

BuildDone == pc = "done" /\ call.op \in {"build_node", "build_auditor", "build_faucet"}

\* C11: every auditor and every faucet descriptor has autostart = true and a
\* run-as-user that is set and equal to the configured service user.
C11_AutostartAndUser ==
    (BuiltAuditor \/ BuiltFaucet) =>
        /\ out.autostart = TRUE
        /\ out.username.some
        /\ out.username.v = call.builder.service_user

\* a faucet descriptor for the service user root
C11_Witness ==
    /\ BuiltFaucet
    /\ call.builder.service_user = "root"
    /\ out.username = [some |-> TRUE, v |-> "root"]
    /\ out.autostart

\* C12: every descriptor of the node, auditor and faucet builders has its
\* working directory unset.
C12_WorkingDirectoryUnset ==
    Built => ~out.working_directory.some

\* an auditor descriptor with peers, a key and no working directory
C12_Witness ==
    /\ BuiltAuditor
    /\ call.builder.bootstrap_peers # <<>>
    /\ call.builder.beta_encryption_key.some
    /\ out.working_directory = [some |-> FALSE]

\* C13: a build fails, returning no descriptor, exactly when the configured
\* name does not parse as a service label; when it parses the build succeeds
\* and the label is the parsed name.  No other input makes a build fail.
C13_OnlyLabelFails ==
    BuildDone =>
        IF call.builder.name = "bad name"
        THEN out = [tag |-> "Err"]
        ELSE /\ out.tag = "Ok"
             /\ out.label = call.builder.name

\* a node build with every other field set has failed on its name alone
C13_Witness ==
    /\ pc = "done"
    /\ call.op = "build_node"
    /\ call.builder.name = "bad name"
    /\ call.builder.node_port.some
    /\ call.builder.bootstrap_peers = TwoPeers
    /\ out.tag = "Err"

\* the node builder with the fields that are copied into the descriptor reset
NoFrame(b) ==
    [b EXCEPT !.autostart = TRUE, !.env_variables = [some |-> FALSE],
              !.service_user = [some |-> FALSE]]

\* C15: the node builder copies autostart, the environment pairs, the
\* run-as-user and the program path into the descriptor unchanged, and none of
\* them changes the argument list.
C15_NodeFrameCopied ==
    BuiltNode =>
        LET b == call.builder
        IN  /\ out.autostart = b.autostart
            /\ out.environment = b.env_variables
            /\ out.username = b.service_user
            /\ out.program = <<"/bin/safenode">>
            /\ out.args = NodeArgs(NoFrame(b))
            /\ \A i \in DOMAIN out.args :
                  out.args[i] \notin {"VAR1", "value1", "VAR2", "value2", "safenode-user",
                                      "/bin/safenode"}

\* the environment of the unit test copied next to autostart = false and a user
C15_Witness ==
    /\ BuiltNode
    /\ ~call.builder.autostart
    /\ ~out.autostart
    /\ out.environment = [some |-> TRUE,
                          v |-> <<<<"VAR1", "value1">>, <<"VAR2", "value2">>>>]
    /\ out.username = [some |-> TRUE, v |-> "safenode-user"]
    /\ Len(out.args) = 9


(***************************************************************************)
(* Properties of the fleet provisioning planner                            *)
(***************************************************************************)

Planned == pc = "done" /\ call.op = "plan"

\* the declared ranges of a request, as role names
DeclaredRoles(req) == {r \in {"node_port", "metrics_port", "rpc_port"} : req[r].some}

\* some instance of the request carries a name the label parser refuses
SomeNameRefused(req) ==
    \/ req.base_name = "bad name" /\ req.count >= 1
    \/ req.base_name = "svc" /\ req.count >= 2

\* the text a descriptor carries for a port role
PortText(d, role) ==
    IF role = "node_port" THEN d.args[IndexOf(d.args, "--port") + 1]
    ELSE IF role = "metrics_port" THEN d.args[IndexOf(d.args, "--metrics-server-port") + 1]
    ELSE d.args[2]
ExpectedPortText(role, p) ==
    IF role = "rpc_port" THEN "127.0.0.1:" \o ToStr(p) ELSE ToStr(p)

\* C16: a fleet expansion is atomic: when a declared range fails validation
\* against the count or one instance's build fails, the planner returns an
\* error and no descriptor (a failed validation wins over a failed build);
\* otherwise it returns exactly count descriptors; never between 1 and
\* count - 1 descriptors
C16_FleetAtomic ==
    Planned =>
        LET req == call.request
            rangeFails == \E r \in DeclaredRoles(req) :
                              Validate(req[r].v, req.count, req.checks).tag # "Ok"
        IN  /\ Len(out.descriptors) \in {0, req.count}
            /\ IF rangeFails \/ SomeNameRefused(req)
               THEN out.tag = "Err" /\ out.descriptors = <<>>
               ELSE out.tag = "Ok" /\ Len(out.descriptors) = req.count
            /\ rangeFails /\ out.tag = "Err" => out.why # "label"

\* C17: in a planned fleet, a role declared as a Range gives instance i the
\* port start + i, inside [start, end] and different from every other
\* instance's port of that role; once every declared range has passed
\* validation and every name parses, the plan succeeds
C17_RangeAllocation ==
    Planned =>
        LET req == call.request
        IN  /\ out.tag = "Ok" =>
                 \A r \in DeclaredRoles(req) :
                    req[r].v.tag = "Range" =>
                       /\ \A i \in 0..(req.count - 1) :
                             /\ req[r].v.start + i <= req[r].v.end
                             /\ PortText(out.descriptors[i + 1], r)
                                   = ExpectedPortText(r, req[r].v.start + i)
                       /\ \A i, j \in 1..req.count :
                             i # j => PortText(out.descriptors[i], r)
                                         # PortText(out.descriptors[j], r)
            /\ ( /\ \A r \in DeclaredRoles(req) :
                       Validate(req[r].v, req.count, req.checks).tag = "Ok"
                 /\ ~SomeNameRefused(req) )
               => out.tag = "Ok"

\* three instances on the ports 8081, 8082, 8083 of the range 8081-8083
C17_Witness ==
    /\ Planned
    /\ call.request.count = 3
    /\ call.request.node_port = Some(Range(8081, 8083))
    /\ call.request.rpc_port = Some(Range(8081, 8083))
    /\ out.tag = "Ok"
    /\ Len(out.descriptors) = 3
    /\ PortText(out.descriptors[1], "node_port") = "8081"
    /\ PortText(out.descriptors[2], "node_port") = "8082"
    /\ PortText(out.descriptors[3], "node_port") = "8083"
    /\ PortText(out.descriptors[3], "rpc_port") = "127.0.0.1:8083"

\* C18: one instance is labelled with the bare base name; N > 1 instances
\* get N pairwise distinct labels, the base name followed by the instance
\* index, and the descriptors come in index order
C18_Identities ==
    Planned /\ out.tag = "Ok" =>
        LET req == call.request
            ds == out.descriptors
        IN  /\ Len(ds) = req.count
            /\ req.count = 1 => ds[1].label = req.base_name
            /\ req.count > 1 =>
                 /\ \A i \in 1..req.count : ds[i].label = req.base_name \o ToStr(i - 1)
                 /\ \A i, j \in 1..req.count : i # j => ds[i].label # ds[j].label
                 /\ \A i \in 1..req.count : ds[i].label # req.base_name

\* a fleet of three, labelled safenode0, safenode1, safenode2 in index order
C18_Witness ==
    /\ Planned
    /\ call.request.base_name = "safenode"
    /\ call.request.count = 3
    /\ call.request.metrics_port = Some(Range(8081, 8083))
    /\ out.tag = "Ok"
    /\ [i \in 1..3 |-> out.descriptors[i].label] = <<"safenode0", "safenode1", "safenode2">>
    /\ [i \in 1..3 |-> PortText(out.descriptors[i], "metrics_port")]
          = <<"8081", "8082", "8083">>

\* the request is otherwise sound: every name parses and every declared
\* range that is not Single passes validation
SoundBesidesSingles(req) ==
    /\ ~SomeNameRefused(req)
    /\ \A r \in DeclaredRoles(req) :
          req[r].v.tag = "Range" =>
             Validate(req[r].v, req.count, req.checks).tag = "Ok"

KeyHandled == pc = "popup" /\ call.op = "key"
InputStates == {"DiscordIdAlreadySet", "AcceptTCsAndEnterDiscordId"}

\* an Enter key handled by an active popup in one of its input states
EnterHandled ==
    /\ KeyHandled
    /\ call.key.code = "Enter"
    /\ call.before.active
    /\ call.before.state \in InputStates

\* 0x followed by exactly 40 hexadecimal digits, and the same in lowercase
LowerHexDigits == {"0", "1", "2", "3", "4", "5", "6", "7", "8", "9",
                   "a", "b", "c", "d", "e", "f"}
UpperHexDigits == {"A", "B", "C", "D", "E", "F"}
IsAddress(v) ==
    /\ Len(v) = 42
    /\ SubSeq(v, 1, 2) = <<"0", "x">>
    /\ \A k \in 3..42 : v[k] \in LowerHexDigits \cup UpperHexDigits
IsLowerAddress(v) ==
    /\ Len(v) = 42
    /\ SubSeq(v, 1, 2) = <<"0", "x">>
    /\ \A k \in 3..42 : v[k] \in LowerHexDigits
AddressLower(v) ==
    [k \in DOMAIN v |->
        CASE v[k] = "A" -> "a" [] v[k] = "B" -> "b" [] v[k] = "C" -> "c"
          [] v[k] = "D" -> "d" [] v[k] = "E" -> "e" [] v[k] = "F" -> "f"
          [] OTHER -> v[k]]

\* C20: an Enter key handled in DiscordIdAlreadySet or
\* AcceptTCsAndEnterDiscordId saves exactly when the input is 0x and 40 hex
\* digits: then the input becomes its lowercase form, the state becomes
\* DiscordIdAlreadySet and the actions are StoreDiscordUserName,
\* UpdateBetaProgrammeUsername (both with the lowercase form) and
\* SwitchScene(Status), in that order; otherwise no action is returned and
\* state and input stay as they were.  No StoreDiscordUserName ever carries
\* anything but a lowercase address.
C20_EnterSavesIffAddress ==
    /\ EnterHandled =>
          LET v == call.before.discord_input_field.value
              lower == AddressLower(v)
          IN  IF IsAddress(v)
              THEN /\ popup.discord_input_field.value = lower
                   /\ popup.state = "DiscordIdAlreadySet"
                   /\ out.actions =
                         <<[a |-> "StoreDiscordUserName", v |-> lower],
                           [a |-> "OptionsActions::UpdateBetaProgrammeUsername",
                            v |-> lower],
                           [a |-> "SwitchScene", scene |-> "Status"]>>
              ELSE /\ out.actions = <<>>
                   /\ popup.state = call.before.state
                   /\ popup.discord_input_field = call.before.discord_input_field
    /\ KeyHandled =>
          \A k \in DOMAIN out.actions :
             out.actions[k].a = "StoreDiscordUserName" => IsLowerAddress(out.actions[k].v)

\* Enter on an address of mixed case, completed by typing its last digit F:
\* saved in lowercase
C20_Witness ==
    /\ EnterHandled
    /\ call.before.discord_input_field.value = MixedAddress
    /\ call.before.old_value = SubSeq(MixedAddress, 1, 41)
    /\ popup.discord_input_field.value # MixedAddress
    /\ popup.discord_input_field.value[42] = "f"
    /\ popup.state = "DiscordIdAlreadySet"
    /\ Len(out.actions) = 3
    /\ out.actions[1] = [a |-> "StoreDiscordUserName", v |-> popup.discord_input_field.value]

UpdateHandled == pc = "popup" /\ call.op = "update"
PopupScenes == {"StatusBetaProgrammePopUp", "OptionsBetaProgrammePopUp"}

\* update has just opened the popup
Opened == UpdateHandled /\ call.action.a = "SwitchScene" /\ call.action.scene \in PopupScenes

\* an Esc key handled by an active popup in one of its input states
EscHandled ==
    /\ KeyHandled
    /\ call.key.code = "Esc"
    /\ call.before.active
    /\ call.before.state \in InputStates

\* C21: opening the popup caches the input's value and sets back_to to Status
\* (opened as StatusBetaProgrammePopUp) or Options (OptionsBetaProgrammePopUp);
\* no key and no other action touches the cache or back_to; an Esc key
\* handled in an input state puts the cached value back as the input,
\* whatever was typed or deleted, and returns exactly SwitchScene(back_to)
C21_EscRestoresOpenedValue ==
    /\ Opened =>
          /\ popup.old_value = call.before.discord_input_field.value
          /\ popup.back_to = IF call.action.scene = "StatusBetaProgrammePopUp"
                             THEN "Status" ELSE "Options"
    /\ (KeyHandled \/ (UpdateHandled /\ ~Opened)) =>
          /\ popup.old_value = call.before.old_value
          /\ popup.back_to = call.before.back_to
    /\ EscHandled =>
          /\ popup.discord_input_field.value = call.before.old_value
          /\ out.actions = <<[a |-> "SwitchScene", scene |-> call.before.back_to]>>

\* opened from Options on the address short of its last digit, then the digit
\* typed and another deleted: Esc puts the opened value back
C21_Witness ==
    /\ EscHandled
    /\ call.before.old_value = SubSeq(MixedAddress, 1, 41)
    /\ call.before.discord_input_field.value # call.before.old_value
    /\ Len(call.before.discord_input_field.value) = 40
    /\ popup.discord_input_field.value = SubSeq(MixedAddress, 1, 41)
    /\ out.actions = <<[a |-> "SwitchScene", scene |-> "Options"]>>

\* a key handled by an active popup in one of its input states
InputKeyHandled ==
    /\ KeyHandled
    /\ call.before.active
    /\ call.before.state \in InputStates

\* C22: a popup created with at most 42 characters never holds more: the
\* created popup has an empty cache, and every update action and every key
\* that finds at most 42 characters in the value and in the cache leaves at
\* most 42 in both; a key other than Enter, Esc and Backspace is ignored once
\* the value holds 42 characters, a space key is always ignored, and
\* Backspace on a value of 42 characters shortens it to 41
C22_AtMost42Characters ==
    /\ (pc = "popup" /\ steps = 0) => popup.old_value = <<>>
    /\ ( /\ KeyHandled \/ UpdateHandled
         /\ Len(call.before.discord_input_field.value) <= 42
         /\ Len(call.before.old_value) <= 42 )
       => /\ Len(popup.discord_input_field.value) <= 42
          /\ Len(popup.old_value) <= 42
    /\ ( /\ InputKeyHandled
         /\ call.key.code \notin {"Enter", "Esc", "Backspace"}
         /\ Len(call.before.discord_input_field.value) = 42 )
       => popup = call.before /\ out.actions = <<>>
    /\ (KeyHandled /\ call.key = [code |-> "Char", c |-> " "])
       => popup = call.before /\ out.actions = <<>>
    /\ ( /\ InputKeyHandled
         /\ call.key.code = "Backspace"
         /\ Len(call.before.discord_input_field.value) = 42 )
       => /\ Len(popup.discord_input_field.value) = 41
          /\ out.actions = <<>>

\* the 42nd character was typed into the popup opened on 41, and a further F
\* is ignored
C22_Witness ==
    /\ InputKeyHandled
    /\ call.key = [code |-> "Char", c |-> "F"]
    /\ call.before.discord_input_field.value = MixedAddress
    /\ call.before.old_value = SubSeq(MixedAddress, 1, 41)
    /\ popup = call.before
    /\ out.actions = <<>>

\* C23: the popup is active after update exactly when the action was
\* SwitchScene to StatusBetaProgrammePopUp or OptionsBetaProgrammePopUp,
\* inactive after SwitchScene to any other scene, and as active as before
\* after any other action and after any key; a new popup is inactive; a key
\* sent to an inactive popup returns no action and changes nothing
C23_KeysOnlyWhileActive ==
    /\ (pc = "popup" /\ steps = 0) => ~popup.active
    /\ UpdateHandled =>
          popup.active = IF call.action.a = "SwitchScene"
                         THEN call.action.scene \in PopupScenes
                         ELSE call.before.active
    /\ KeyHandled => popup.active = call.before.active
    /\ (KeyHandled /\ ~call.before.active) =>
          /\ out.actions = <<>>
          /\ popup = call.before

\* opened, a digit deleted, closed by SwitchScene(Status): the F typed
\* afterwards is not taken
C23_Witness ==
    /\ KeyHandled
    /\ ~call.before.active
    /\ call.key = [code |-> "Char", c |-> "F"]
    /\ call.before.old_value = MixedAddress
    /\ call.before.discord_input_field.value = SubSeq(MixedAddress, 1, 41)
    /\ popup = call.before
    /\ out.actions = <<>>

\* the actions a call has returned, as a set
Returned ==
    IF KeyHandled THEN {out.actions[k] : k \in DOMAIN out.actions}
    ELSE IF UpdateHandled /\ out.ret.some THEN {out.ret.v}
    ELSE {}

\* C24: a popup is in state ShowTCs exactly when it was created with an
\* empty value and no 'y' or 'Y' key has yet been handled there while
\* active: it starts in ShowTCs exactly when its value is empty; in ShowTCs
\* the value stays empty and no call returns StoreDiscordUserName; the state
\* leaves ShowTCs only on a 'y' or 'Y' key handled while active; a state
\* other than ShowTCs never becomes ShowTCs; RejectTCs is never reached
C24_TermsGate ==
    /\ (pc = "popup" /\ steps = 0) =>
          (popup.state = "ShowTCs") = (popup.discord_input_field.value = <<>>)
    /\ (pc = "popup" /\ popup.state = "ShowTCs") => popup.discord_input_field.value = <<>>
    /\ ((KeyHandled \/ UpdateHandled) /\ call.before.state = "ShowTCs") =>
          /\ \A act \in Returned : act.a # "StoreDiscordUserName"
          /\ popup.discord_input_field.value = <<>>
          /\ popup.state # "ShowTCs" =>
                /\ KeyHandled
                /\ call.key \in {[code |-> "Char", c |-> "y"], [code |-> "Char", c |-> "Y"]}
                /\ call.before.active
    /\ ((KeyHandled \/ UpdateHandled) /\ call.before.state # "ShowTCs") =>
          popup.state # "ShowTCs"
    /\ pc = "popup" => popup.state # "RejectTCs"

\* the terms accepted with 'Y' by the active popup created empty: the state
\* moves on to AcceptTCsAndEnterDiscordId, the value still empty
C24_Witness ==
    /\ KeyHandled
    /\ call.key = [code |-> "Char", c |-> "Y"]
    /\ call.before.active
    /\ call.before.state = "ShowTCs"
    /\ popup.state = "AcceptTCsAndEnterDiscordId"
    /\ popup.discord_input_field.value = <<>>
    /\ out.actions = <<>>

\* C25: can_save is true only when the input's value is 0x followed by
\* exactly 40 hexadecimal digits, after every sequence of update actions
\* and keys, Esc included
C25_CanSaveOnlyOnAddress ==
    pc = "popup" => (popup.can_save => IsAddress(popup.discord_input_field.value))


====
